---------------------------- MODULE Spec2Model ----------------------------
(***************************************************************************)
(* Book_Search_App.py: a console application that searches a remote book  *)
(* catalogue (APIClient), keeps the chosen books in an in-memory list      *)
(* (BookSearchApp.my_library) and writes that list to a JSON file          *)
(* (FileManager).                                                          *)
(*                                                                         *)
(* Python values are modelled as tagged records (PyStr, PyNone, PyInt,     *)
(* PyList, PyDict). A str is the sequence of its pieces (characters, or    *)
(* words that are never taken apart), so that strip, join and int work on  *)
(* it; the keys of a dict are named by TLA+ strings. A JSON text is the    *)
(* sequence of its tokens.                                                 *)
(***************************************************************************)
EXTENDS Integers, Sequences, FiniteSets, TLC

VARIABLES
    pc,          \* where the process is: "start", "menu", "select", "exit", "crashed"
    store,       \* the content of my_library.json
    my_library,  \* BookSearchApp.my_library: a sequence of Book objects
    results,     \* temp_results of the running handle_search
    inp,         \* the prompt the user answered last, and the line typed
    out,         \* what the last step printed
    net,         \* the remote request of the last step and its outcome
    fm,          \* the last FileManager call: operation, argument, outcome
    written,     \* the Books whose save succeeded last (FileManager driver)
    api          \* the last APIClient input and outcome (APIClient drivers)

vars == <<pc, store, my_library, results, inp, out, net, fm, written, api>>

---------------------------------------------------------------------------
(* Bounds of the model *)

MaxLib == 2      \* longest library
MaxItems == 2    \* most items in one API response
MaxIds == 2      \* most entries in one industryIdentifiers list

---------------------------------------------------------------------------
(* Python values *)

PyStr(s) == [ty |-> "str", s |-> s]
PyNone == [ty |-> "NoneType"]
PyInt(n) == [ty |-> "int", n |-> n]
PyList(q) == [ty |-> "list", elems |-> q]
PyDict(f) == [ty |-> "dict", items |-> f]

EmptyItems == [k \in {} |-> PyNone]

\* dict.get(key, default)
Get(d, key, default) ==
    IF key \in DOMAIN d.items THEN d.items[key] ELSE default

\* bool(v) as `if not v` uses it
Truthy(v) ==
    CASE v.ty = "NoneType" -> FALSE
      [] v.ty = "str" -> v.s # <<>>
      [] v.ty = "int" -> v.n # 0
      [] v.ty = "list" -> v.elems # <<>>
      [] v.ty = "dict" -> DOMAIN v.items # {}
      [] OTHER -> TRUE

---------------------------------------------------------------------------
(* class Book *)

\* Book.__init__: the four attributes, in the order __dict__ holds them
BookFields == <<"title", "author", "publisher", "isbn">>

Book(title, author, publisher, isbn) ==
    [title |-> title, author |-> author, publisher |-> publisher, isbn |-> isbn]

to_dict_renamed(self) ==
    PyDict([k \in {"title", "author", "publisher", "identifier"} |->
              IF k = "identifier" THEN self.isbn ELSE self[k]])

\* Book.to_dict: self.__dict__
to_dict(self) ==
    PyDict([k \in {BookFields[i] : i \in 1..Len(BookFields)} |-> self[k]])

\* Book(**data): a TypeError unless data is a mapping whose keys are
\* parameters of __init__ and include the two required ones
BookFromData(data) ==
    IF data.ty # "dict" THEN [raised |-> "TypeError", book |-> PyNone]
    ELSE IF ~(DOMAIN data.items \subseteq {"title", "author", "publisher", "isbn"})
         THEN [raised |-> "TypeError", book |-> PyNone]
    ELSE IF ~({"title", "author"} \subseteq DOMAIN data.items)
         THEN [raised |-> "TypeError", book |-> PyNone]
    ELSE [raised |-> "",
          book |-> Book(data.items["title"], data.items["author"],
                        Get(data, "publisher", PyNone), Get(data, "isbn", PyNone))]

\* [Book(**data) for data in seq]
BooksFromData(seq) ==
    IF \E i \in 1..Len(seq) : BookFromData(seq[i]).raised # ""
    THEN [raised |-> "TypeError", books |-> <<>>]
    ELSE [raised |-> "", books |-> [i \in 1..Len(seq) |-> BookFromData(seq[i]).book]]

\* str(v) inside an f-string
Text(v) ==
    CASE v.ty = "str" -> v.s
      [] v.ty = "NoneType" -> <<"None">>
      [] OTHER -> <<"<object>">>

---------------------------------------------------------------------------
(* JSON texts: json.dump and json.load *)

TStr(s) == [t |-> "str", s |-> s]
TKey(s) == [t |-> "key", s |-> s]
TNum(n) == [t |-> "num", n |-> n]
TNull == [t |-> "null"]
TOpenList == [t |-> "["]
TCloseList == [t |-> "]"]
TOpenDict == [t |-> "{"]
TCloseDict == [t |-> "}"]
TJunk == [t |-> "junk"]     \* text that is no JSON token

\* the order json.dump writes the keys of a dict: its insertion order, which
\* for Book.__dict__ is the order of the assignments in __init__
KeyOrder ==
    <<"title", "author", "publisher", "isbn", "identifier", "kind", "totalItems",
      "items", "volumeInfo", "authors", "industryIdentifiers", "type">>

RECURSIVE DumpValue(_)
RECURSIVE DumpElems(_, _)
RECURSIVE DumpMembers(_, _)

DumpElems(q, i) ==
    IF i > Len(q) THEN <<>> ELSE DumpValue(q[i]) \o DumpElems(q, i + 1)

DumpMembers(f, i) ==
    IF i > Len(KeyOrder) THEN <<>>
    ELSE (IF KeyOrder[i] \in DOMAIN f
          THEN <<TKey(KeyOrder[i])>> \o DumpValue(f[KeyOrder[i]])
          ELSE <<>>) \o DumpMembers(f, i + 1)

\* json.dump(v, f, indent=4): the chunks written, in order
DumpValue(v) ==
    CASE v.ty = "str" -> <<TStr(v.s)>>
      [] v.ty = "NoneType" -> <<TNull>>
      [] v.ty = "int" -> <<TNum(v.n)>>
      [] v.ty = "list" -> <<TOpenList>> \o DumpElems(v.elems, 1) \o <<TCloseList>>
      [] v.ty = "dict" -> <<TOpenDict>> \o DumpMembers(v.items, 1) \o <<TCloseDict>>

ParseFail == [ok |-> FALSE, val |-> PyNone, next |-> 0]

RECURSIVE ParseValue(_, _)
RECURSIVE ParseElems(_, _, _)
RECURSIVE ParseMembers(_, _, _)

ParseElems(toks, i, acc) ==
    IF i > Len(toks) THEN ParseFail
    ELSE IF toks[i].t = "]" THEN [ok |-> TRUE, val |-> PyList(acc), next |-> i + 1]
    ELSE LET r == ParseValue(toks, i)
         IN  IF r.ok THEN ParseElems(toks, r.next, Append(acc, r.val)) ELSE ParseFail

ParseMembers(toks, i, acc) ==
    IF i > Len(toks) THEN ParseFail
    ELSE IF toks[i].t = "}" THEN [ok |-> TRUE, val |-> PyDict(acc), next |-> i + 1]
    ELSE IF toks[i].t # "key" THEN ParseFail
    ELSE LET r == ParseValue(toks, i + 1)
         IN  IF r.ok
             THEN ParseMembers(toks, r.next,
                      [k \in DOMAIN acc \cup {toks[i].s} |->
                          IF k = toks[i].s THEN r.val ELSE acc[k]])
             ELSE ParseFail

ParseValue(toks, i) ==
    IF i > Len(toks) THEN ParseFail
    ELSE CASE toks[i].t = "str" -> [ok |-> TRUE, val |-> PyStr(toks[i].s), next |-> i + 1]
           [] toks[i].t = "null" -> [ok |-> TRUE, val |-> PyNone, next |-> i + 1]
           [] toks[i].t = "num" -> [ok |-> TRUE, val |-> PyInt(toks[i].n), next |-> i + 1]
           [] toks[i].t = "[" -> ParseElems(toks, i + 1, <<>>)
           [] toks[i].t = "{" -> ParseMembers(toks, i + 1, EmptyItems)
           [] OTHER -> ParseFail

\* json.load / response.json(): one value spanning the whole text, or a
\* decode error
JsonLoad(toks) ==
    LET r == ParseValue(toks, 1)
    IN  IF r.ok /\ r.next = Len(toks) + 1
        THEN [raised |-> "", val |-> r.val]
        ELSE [raised |-> "JSONDecodeError", val |-> PyNone]

---------------------------------------------------------------------------
(* The store: the file my_library.json *)

Absent == [exists |-> FALSE, utf8 |-> TRUE, text |-> <<>>]
TextFile(toks) == [exists |-> TRUE, utf8 |-> TRUE, text |-> toks]
\* a file whose bytes are not UTF-8
BinaryFile == [exists |-> TRUE, utf8 |-> FALSE, text |-> <<>>]

---------------------------------------------------------------------------
(* class FileManager *)

\* FileManager.load_library. fault is what the operating system does to the
\* read: "none", or "IOError" (the file exists and cannot be opened or read).
\* open(..., encoding='utf-8') makes json.load raise UnicodeDecodeError on
\* bytes that are not UTF-8; no except clause of load_library names it.
load_library(st, fault) ==
    IF ~st.exists
    THEN [raised |-> "", data |-> <<>>, warning |-> "No library file found"]
    ELSE IF fault = "IOError"
    THEN [raised |-> "FileLoadError", data |-> <<>>, warning |-> ""]
    ELSE IF ~st.utf8
    THEN [raised |-> "UnicodeDecodeError", data |-> <<>>, warning |-> ""]
    ELSE LET r == JsonLoad(st.text)
         IN  IF r.raised # ""
             THEN [raised |-> "FileLoadError", data |-> <<>>, warning |-> ""]
             ELSE IF r.val.ty # "list"
             THEN [raised |-> "", data |-> <<>>, warning |-> "not a list"]
             ELSE [raised |-> "", data |-> r.val.elems, warning |-> ""]

\* what can go wrong in save_library: nothing, open() fails, or a write
\* fails after k chunks of the text have reached the file
SaveFaults(chunks) ==
    {[at |-> "never", k |-> 0], [at |-> "open", k |-> 0]}
        \cup {[at |-> "write", k |-> k] : k \in 0..(Len(chunks) - 1)}

\* the faults the application's runs are checked with: a write may fail
\* before the first chunk, half way, or before the last chunk
AppSaveFaults(chunks) ==
    {f \in SaveFaults(chunks) :
        f.at = "write" => f.k \in {0, Len(chunks) \div 2, Len(chunks) - 1}}

\* FileManager.save_library: open(file_path, 'w') truncates the file, then
\* json.dump writes the text chunk by chunk
save_library(st, library_data, fault) ==
    LET chunks == DumpValue(PyList(library_data))
    IN  CASE fault.at = "open" -> [store |-> st, raised |-> "FileLoadError"]
          [] fault.at = "write" ->
                [store |-> TextFile(SubSeq(chunks, 1, fault.k)), raised |-> "FileLoadError"]
          [] OTHER -> [store |-> TextFile(chunks), raised |-> ""]

---------------------------------------------------------------------------
(* class APIClient *)

\* a str of one piece
W(word) == PyStr(<<word>>)

\* what requests.get hands back: an exception of the transport
\* ("ConnectionError", "Timeout"), or a response with a status and a body
Response(status, body) == [transport |-> "ok", status |-> status, body |-> body]
TransportFailure(kind) == [transport |-> kind, status |-> 0, body |-> <<>>]

\* response.raise_for_status(): HTTPError for a 4xx or 5xx status
raise_for_status(status) ==
    IF 400 <= status /\ status < 600 THEN "HTTPError" ELSE ""

RECURSIVE JoinStrs(_, _)
JoinStrs(q, i) ==
    IF i > Len(q) THEN <<>>
    ELSE q[i].s \o (IF i < Len(q) THEN <<", ">> ELSE <<>>) \o JoinStrs(q, i + 1)

\* ', '.join(authors_list), for a list or a value that is not iterable (a str
\* or a dict, which join would iterate, is no authors value of the model)
JoinAuthors(authors_list) ==
    CASE authors_list.ty = "list" ->
            IF \A i \in 1..Len(authors_list.elems) : authors_list.elems[i].ty = "str"
            THEN [raised |-> "", val |-> PyStr(JoinStrs(authors_list.elems, 1))]
            ELSE [raised |-> "TypeError", val |-> PyNone]
      [] authors_list.ty \in {"NoneType", "int"} -> [raised |-> "TypeError", val |-> PyNone]

\* next((i['identifier'] for i in identifiers if i.get('type') == 'ISBN_13'), default)
\* from entry k on
RECURSIVE NextIsbn13(_, _, _)
NextIsbn13(ids, k, default) ==
    IF k > Len(ids) THEN [raised |-> "", val |-> default]
    ELSE IF ids[k].ty # "dict" THEN [raised |-> "AttributeError", val |-> PyNone]
    ELSE IF Get(ids[k], "type", PyNone) = W("ISBN_13")
         THEN IF "identifier" \in DOMAIN ids[k].items
              THEN [raised |-> "", val |-> ids[k].items["identifier"]]
              ELSE [raised |-> "KeyError", val |-> PyNone]
    ELSE NextIsbn13(ids, k + 1, default)

\* the ISBN extraction of search_books. Python evaluates the arguments of
\* next() first: iter(identifiers) of the generator expression, then the
\* default identifiers[0].get('identifier') if identifiers else None
ExtractIsbn(identifiers) ==
    CASE identifiers.ty \in {"NoneType", "int"} -> [raised |-> "TypeError", val |-> PyNone]
      [] identifiers.ty = "str" ->
            IF Truthy(identifiers) THEN [raised |-> "AttributeError", val |-> PyNone]
            ELSE [raised |-> "", val |-> PyNone]
      [] identifiers.ty = "dict" ->
            IF Truthy(identifiers) THEN [raised |-> "KeyError", val |-> PyNone]
            ELSE [raised |-> "", val |-> PyNone]
      [] identifiers.ty = "list" ->
            IF identifiers.elems = <<>> THEN [raised |-> "", val |-> PyNone]
            ELSE IF identifiers.elems[1].ty # "dict"
                 THEN [raised |-> "AttributeError", val |-> PyNone]
            ELSE NextIsbn13(identifiers.elems, 1,
                            Get(identifiers.elems[1], "identifier", PyNone))

\* the body of `for item in data['items']`: book_data, or the exception
NormalizeItem(item) ==
    IF item.ty # "dict" THEN [raised |-> "AttributeError", data |-> PyNone]
    ELSE LET volume_info == Get(item, "volumeInfo", PyDict(EmptyItems))
         IN  IF volume_info.ty # "dict" THEN [raised |-> "AttributeError", data |-> PyNone]
             ELSE LET authors_list == Get(volume_info, "authors",
                                          PyList(<<W("Unknown Author")>>))
                      identifiers == Get(volume_info, "industryIdentifiers", PyList(<<>>))
                      isbn == ExtractIsbn(identifiers)
                      author == JoinAuthors(authors_list)
                  IN  IF isbn.raised # "" THEN [raised |-> isbn.raised, data |-> PyNone]
                      ELSE IF author.raised # ""
                           THEN [raised |-> author.raised, data |-> PyNone]
                      ELSE [raised |-> "",
                            data |-> PyDict([title |-> Get(volume_info, "title", W("N/A Title")),
                                             author |-> author.val,
                                             publisher |-> Get(volume_info, "publisher", PyNone),
                                             isbn |-> isbn.val])]

ApiFailed(cause) == [raised |-> "APIError", cause |-> cause, records |-> <<>>]

\* the loop over data['items'], from item i on
RECURSIVE ParseItems(_, _, _)
ParseItems(items, i, parsed_books) ==
    IF i > Len(items) THEN [raised |-> "", cause |-> "", records |-> parsed_books]
    ELSE LET r == NormalizeItem(items[i])
         IN  IF r.raised # "" THEN ApiFailed(r.raised)
             ELSE ParseItems(items, i + 1, Append(parsed_books, r.data))

\* APIClient.search_books, given what requests.get does. Every exception is
\* turned into APIError by one of the four except clauses.
search_books(resp) ==
    IF resp.transport # "ok" THEN ApiFailed(resp.transport)
    ELSE IF raise_for_status(resp.status) # "" THEN ApiFailed("HTTPError")
    ELSE LET data == JsonLoad(resp.body)
         IN  IF data.raised # "" THEN ApiFailed("JSONDecodeError")
             ELSE IF data.val.ty # "dict" THEN ApiFailed("AttributeError")
             ELSE IF ~Truthy(Get(data.val, "items", PyNone))
                  THEN [raised |-> "", cause |-> "", records |-> <<>>]
             ELSE IF data.val.items["items"].ty # "list"
                  THEN ApiFailed(IF data.val.items["items"].ty = "int"
                                 THEN "TypeError" ELSE "AttributeError")
             ELSE ParseItems(data.val.items["items"].elems, 1, <<>>)

---------------------------------------------------------------------------
(* Values the model draws its inputs from *)

Dune == Book(W("Dune"), W("Frank Herbert"), PyNone, PyNone)
DuneAce == Book(W("Dune"), W("Frank Herbert"), W("Ace"), W("9780441013593"))
Emma == Book(W("Emma"), W("Jane Austen"), W("Penguin"), PyNone)
Ulysses == Book(W("Ulysses"), W("James Joyce"), PyNone, W("0679722769"))

BookPool == {Dune, DuneAce, Emma, Ulysses}

\* the sequences over S of length at most n
SeqsUpTo(S, n) == UNION {[1..k -> S] : k \in 0..n}

Collections == SeqsUpTo(BookPool, MaxLib)

\* contents my_library.json may have when the program starts
InitialStores ==
    { Absent,
      BinaryFile,
      TextFile(<<>>),
      TextFile(<<TJunk>>),
      TextFile(<<TOpenList, TCloseList>>),
      TextFile(DumpValue(PyList(<<to_dict(Dune)>>))),
      TextFile(DumpValue(PyList(<<to_dict(Emma), to_dict(DuneAce)>>))),
      TextFile(DumpValue(PyList(<<PyDict([title |-> W("Dune"),
                                           author |-> W("Frank Herbert")])>>))),
      TextFile(DumpValue(PyList(<<PyDict([title |-> W("Dune")])>>))),
      TextFile(DumpValue(PyList(<<PyDict([title |-> W("Dune"),
                                           author |-> W("Frank Herbert"),
                                           identifier |-> W("0679722769")])>>))),
      TextFile(DumpValue(PyList(<<to_dict(Dune), PyInt(5)>>))),
      TextFile(DumpValue(to_dict(Dune))),
      TextFile(DumpValue(PyDict([title |-> PyList(<<to_dict(Dune)>>)]))),
      TextFile(<<TNull>>),
      TextFile(SubSeq(DumpValue(PyList(<<to_dict(Dune)>>)), 1, 4)) }

\* entries of an industryIdentifiers list: with or without a type, with or
\* without an identifier
IdEntries ==
    { PyDict([k \in ks |-> IF k = "type" THEN ty ELSE id]) :
        ks \in SUBSET {"type", "identifier"},
        ty \in {W("ISBN_13"), W("ISBN_10")},
        id \in {W("9780441013593"), W("0441013597")} }

IdLists == SeqsUpTo(IdEntries, MaxIds)

ItemWithIds(ids) ==
    PyDict([volumeInfo |->
              PyDict([title |-> W("Dune"),
                      authors |-> PyList(<<W("Frank Herbert")>>),
                      industryIdentifiers |-> PyList(ids)])])

ItemFull ==
    PyDict([volumeInfo |->
              PyDict([title |-> W("Dune"),
                      authors |-> PyList(<<W("Frank Herbert")>>),
                      publisher |-> W("Ace"),
                      industryIdentifiers |->
                          PyList(<<PyDict([type |-> W("ISBN_10"), identifier |-> W("0441013597")]),
                                   PyDict([type |-> W("ISBN_13"), identifier |-> W("9780441013593")])>>)])])
ItemTwoAuthors ==
    PyDict([volumeInfo |->
              PyDict([title |-> W("Good Omens"),
                      authors |-> PyList(<<W("Terry Pratchett"), W("Neil Gaiman")>>)])])
ItemBare == PyDict(EmptyItems)
ItemIsbn13NoValue == ItemWithIds(<<PyDict([type |-> W("ISBN_13")])>>)
ItemNotDict == PyInt(7)
ItemAuthorsNull == PyDict([volumeInfo |-> PyDict([title |-> W("Emma"), authors |-> PyNone])])

ItemPool ==
    {ItemFull, ItemTwoAuthors, ItemBare, ItemIsbn13NoValue, ItemNotDict, ItemAuthorsNull}

\* the JSON text of a payload with these items
ItemsBody(items) ==
    DumpValue(PyDict([kind |-> W("books#volumes"), items |-> PyList(items)]))

\* bodies that are no payload with a list of items
OtherBodies ==
    { <<>>,
      <<TJunk>>,
      DumpValue(PyList(<<ItemFull>>)),
      DumpValue(PyDict([kind |-> W("books#volumes"), totalItems |-> PyInt(0)])),
      DumpValue(PyDict([items |-> W("oops")])),
      DumpValue(PyDict([items |-> PyInt(3)])) }

Statuses == {200, 300, 404, 503}

TransportFailures == {TransportFailure("ConnectionError"), TransportFailure("Timeout")}

\* what the remote side may do, for the APIClient driver
Responses ==
    TransportFailures
        \cup { Response(st, b) :
                 st \in Statuses,
                 b \in OtherBodies
                         \cup {ItemsBody(q) : q \in SeqsUpTo(ItemPool, MaxItems)}
                         \cup {ItemsBody(<<ItemWithIds(ids)>>) : ids \in IdLists} }

\* what the remote side may do, for the application
AppResponses ==
    TransportFailures
        \cup { Response(st, b) :
                 st \in Statuses,
                 b \in { <<TJunk>>,
                         ItemsBody(<<>>),
                         ItemsBody(<<ItemFull>>),
                         ItemsBody(<<ItemTwoAuthors, ItemFull>>),
                         ItemsBody(<<ItemFull, ItemBare, ItemFull>>),
                         ItemsBody(<<ItemFull, ItemIsbn13NoValue>>) } }

\* contents my_library.json may have when the application starts
AppStores ==
    { Absent,
      BinaryFile,
      TextFile(<<TJunk>>),
      TextFile(<<TOpenList, TCloseList>>),
      TextFile(DumpValue(PyList(<<to_dict(Dune)>>))),
      TextFile(DumpValue(PyList(<<PyDict([title |-> W("Emma"),
                                           author |-> W("Jane Austen")])>>))),
      TextFile(DumpValue(PyList(<<PyDict([title |-> W("Dune"),
                                           author |-> W("Frank Herbert"),
                                           identifier |-> W("0679722769")])>>))),
      TextFile(DumpValue(PyList(<<to_dict(Dune), PyInt(5)>>))),
      TextFile(DumpValue(PyDict([title |-> PyList(<<to_dict(Dune)>>)]))),
      TextFile(SubSeq(DumpValue(PyList(<<to_dict(Dune)>>)), 1, 4)) }

---------------------------------------------------------------------------
(* Values of the variables a specification does not use *)

NoOutput == [msg |-> ""]
NoCall == [op |-> "none"]
NoRequest == [sent |-> FALSE, raised |-> "", n |-> 0]
NoInput == [prompt |-> "", line |-> <<>>]
NoApi == [op |-> "none"]
NothingWritten == [valid |-> FALSE, books |-> <<>>]

---------------------------------------------------------------------------
(* Lines typed at the console *)

Digits == <<"0", "1", "2", "3", "4", "5", "6", "7", "8", "9">>
IsDigit(c) == \E d \in 1..Len(Digits) : Digits[d] = c
DigitValue(c) == (CHOOSE d \in 1..Len(Digits) : Digits[d] = c) - 1

\* str(n) for n >= 0
RECURSIVE IntStr(_)
IntStr(n) ==
    IF n < 10 THEN <<Digits[n + 1]>> ELSE IntStr(n \div 10) \o <<Digits[(n % 10) + 1]>>

RECURSIVE LStrip(_)
LStrip(line) ==
    IF line # <<>> /\ Head(line) = " " THEN LStrip(Tail(line)) ELSE line

RECURSIVE RStrip(_)
RStrip(line) ==
    IF line # <<>> /\ line[Len(line)] = " "
    THEN RStrip(SubSeq(line, 1, Len(line) - 1)) ELSE line

\* str.strip()
Strip(line) == RStrip(LStrip(line))

\* str.lower(), on the characters the model types
Lower(line) == [i \in 1..Len(line) |-> IF line[i] = "N" THEN "n" ELSE line[i]]

RECURSIVE DigitsValue(_, _)
DigitsValue(ds, acc) ==
    IF ds = <<>> THEN acc ELSE DigitsValue(Tail(ds), 10 * acc + DigitValue(Head(ds)))

IntOfAbs(text) ==
    LET signed == text # <<>> /\ Head(text) \in {"-", "+"}
        ds == IF signed THEN Tail(text) ELSE text
    IN  IF ds = <<>> \/ \E i \in 1..Len(ds) : ~IsDigit(ds[i])
        THEN [raised |-> "ValueError", val |-> 0]
        ELSE [raised |-> "", val |-> DigitsValue(ds, 0)]

\* int(text) of a stripped text: an optional sign and decimal digits, else
\* ValueError
IntOf(text) ==
    LET signed == text # <<>> /\ Head(text) \in {"-", "+"}
        ds == IF signed THEN Tail(text) ELSE text
    IN  IF ds = <<>> \/ \E i \in 1..Len(ds) : ~IsDigit(ds[i])
        THEN [raised |-> "ValueError", val |-> 0]
        ELSE [raised |-> "",
              val |-> IF text[1] = "-" THEN 0 - DigitsValue(ds, 0) ELSE DigitsValue(ds, 0)]

MenuLines == {<<"1">>, <<"2">>, <<" ", "3", " ">>, <<"4">>, <<>>}

QueryLines == {<<>>, <<" ", " ">>, <<" ", "D", "u", "n", "e">>}

SelectionLines ==
    {IntStr(k) : k \in 0..4}
        \cup {<<"n">>, <<" ", "N", " ">>, <<"-", "1">>, <<" ", "1">>, <<"x">>, <<"1", "0">>}

---------------------------------------------------------------------------
(* class BookSearchApp *)

Say(msg) == [msg |-> msg]

\* the prompts of the three input() calls
ChoicePrompt == "Enter your choice : "
QueryPrompt == "Enter search keyword (title/author): "
SelectionPrompt == "Enter book number to save, or 'n' to cancel: "

\* BookSearchApp.__init__ and _load_initial_library
Construct(fault) ==
    LET r == load_library(store, fault)
        b == BooksFromData(r.data)
    IN  /\ pc = "start"
        /\ IF r.raised = "FileLoadError"
           THEN /\ my_library' = <<>>
                /\ out' = Say("CRITICAL FILE ERROR: Cannot load library")
                /\ pc' = "menu"
           ELSE IF r.raised # ""
           THEN /\ out' = [msg |-> "Traceback", exc |-> r.raised]
                /\ pc' = "crashed"
                /\ UNCHANGED my_library
           ELSE IF b.raised # ""
           THEN /\ out' = [msg |-> "Traceback", exc |-> b.raised]
                /\ pc' = "crashed"
                /\ UNCHANGED my_library
           ELSE /\ my_library' = b.books
                /\ out' = Say("Startup: Successfully loaded")
                /\ pc' = "menu"
        /\ inp' = NoInput
        /\ net' = NoRequest
        /\ UNCHANGED <<store, results, fm, written, api>>

\* what search_books may hand to handle_search
SearchOutcomes == {search_books(resp) : resp \in AppResponses}

HandleSearchWithoutBlankCheck(choice, query, ret) ==
    LET temp_results == BooksFromData(ret.records)
    IN  /\ pc = "menu"
        /\ Strip(choice) = <<"1">>
        /\ inp' = [prompt |-> QueryPrompt, line |-> query]
        /\ net' = [sent |-> TRUE, raised |-> ret.raised, n |-> Len(ret.records)]
        /\ IF ret.raised # ""
           THEN /\ out' = Say("API SEARCH FAILED")
                /\ UNCHANGED <<pc, results>>
           ELSE IF ret.records = <<>>
           THEN /\ out' = Say("Search finished. No books found.")
                /\ UNCHANGED <<pc, results>>
           ELSE /\ results' = temp_results.books
                /\ out' = Say("--- Search Results ---")
                /\ pc' = "select"
        /\ UNCHANGED <<store, my_library, fm, written, api>>

\* run: choice '1', handle_search up to the first prompt of
\* _handle_save_selection; ret is what search_books does when it is called
HandleSearch(choice, query, ret) ==
    LET q == Strip(query)
        temp_results == BooksFromData(ret.records)
    IN  /\ pc = "menu"
        /\ Strip(choice) = <<"1">>
        /\ inp' = [prompt |-> QueryPrompt, line |-> query]
        /\ IF q = <<>>
           THEN /\ out' = Say("Search query cannot be empty. Returning to menu.")
                /\ net' = NoRequest
                /\ UNCHANGED <<pc, results>>
           ELSE /\ net' = [sent |-> TRUE, raised |-> ret.raised, n |-> Len(ret.records)]
                /\ IF ret.raised # ""
                   THEN /\ out' = Say("API SEARCH FAILED")
                        /\ UNCHANGED <<pc, results>>
                   ELSE IF ret.records = <<>>
                   THEN /\ out' = Say("Search finished. No books found.")
                        /\ UNCHANGED <<pc, results>>
                   ELSE /\ results' = temp_results.books
                        /\ out' = Say("--- Search Results ---")
                        /\ pc' = "select"
        /\ UNCHANGED <<store, my_library, fm, written, api>>

HandleSaveSelectionSavingFirst(line) ==
    LET selection == Strip(Lower(line))
        number == IntOf(selection)
        index == number.val - 1
        appended == Append(my_library, results[index + 1])
        library_data_to_save == [i \in 1..Len(my_library) |-> to_dict(my_library[i])]
    IN  /\ pc = "select"
        /\ inp' = [prompt |-> SelectionPrompt, line |-> line]
        /\ net' = NoRequest
        /\ IF selection = <<"n">>
           THEN /\ pc' = "menu"
                /\ results' = <<>>
                /\ out' = NoOutput
                /\ UNCHANGED <<store, my_library>>
           ELSE IF number.raised # ""
           THEN /\ out' = Say("Invalid input. Please enter a number or 'n'.")
                /\ UNCHANGED <<pc, results, store, my_library>>
           ELSE IF ~(0 <= index /\ index < Len(results))
           THEN /\ out' = Say("Invalid selection number. Must be one of the options listed.")
                /\ UNCHANGED <<pc, results, store, my_library>>
           ELSE /\ Len(my_library) < MaxLib
                /\ my_library' = appended
                /\ \E fault \in AppSaveFaults(DumpValue(PyList(library_data_to_save))) :
                      LET r == save_library(store, library_data_to_save, fault)
                      IN  /\ store' = r.store
                          /\ out' = IF r.raised # ""
                                    THEN Say("FATAL SAVE ERROR: Could not save the library after adding the book.")
                                    ELSE [msg |-> "SUCCESS: added and library saved.",
                                          title |-> Text(results[index + 1].title)]
                /\ pc' = "menu"
                /\ results' = <<>>
        /\ UNCHANGED <<fm, written, api>>

\* one pass of the loop of _handle_save_selection. A library of MaxLib books
\* takes no further book: the model stops there.
HandleSaveSelection(line) ==
    LET selection == Strip(Lower(line))
        number == IntOf(selection)
        index == number.val - 1
        appended == Append(my_library, results[index + 1])
        library_data_to_save == [i \in 1..Len(appended) |-> to_dict(appended[i])]
    IN  /\ pc = "select"
        /\ inp' = [prompt |-> SelectionPrompt, line |-> line]
        /\ net' = NoRequest
        /\ IF selection = <<"n">>
           THEN /\ pc' = "menu"
                /\ results' = <<>>
                /\ out' = NoOutput
                /\ UNCHANGED <<store, my_library>>
           ELSE IF number.raised # ""
           THEN /\ out' = Say("Invalid input. Please enter a number or 'n'.")
                /\ UNCHANGED <<pc, results, store, my_library>>
           ELSE IF ~(0 <= index /\ index < Len(results))
           THEN /\ out' = Say("Invalid selection number. Must be one of the options listed.")
                /\ UNCHANGED <<pc, results, store, my_library>>
           ELSE /\ Len(my_library) < MaxLib
                /\ my_library' = appended
                /\ \E fault \in AppSaveFaults(DumpValue(PyList(library_data_to_save))) :
                      LET r == save_library(store, library_data_to_save, fault)
                      IN  /\ store' = r.store
                          /\ out' = IF r.raised # ""
                                    THEN Say("FATAL SAVE ERROR: Could not save the library after adding the book.")
                                    ELSE [msg |-> "SUCCESS: added and library saved.",
                                          title |-> Text(results[index + 1].title)]
                /\ pc' = "menu"
                /\ results' = <<>>
        /\ UNCHANGED <<fm, written, api>>

\* "[i+1] title by author"
LibraryLine(i, book) ==
    <<"[">> \o IntStr(i + 1) \o <<"] ">> \o Text(book.title) \o <<" by ">> \o Text(book.author)

\* run: choice '2', handle_view_library
HandleViewLibrary(choice) ==
    /\ pc = "menu"
    /\ Strip(choice) = <<"2">>
    /\ out' = IF my_library = <<>>
              THEN Say("Your library is currently empty.")
              ELSE [msg |-> "--- Your Saved Library ---",
                    lines |-> [i \in 1..Len(my_library) |-> LibraryLine(i - 1, my_library[i])]]
    /\ inp' = [prompt |-> ChoicePrompt, line |-> choice]
    /\ net' = NoRequest
    /\ UNCHANGED <<pc, store, my_library, results, fm, written, api>>

\* run: choice '3'
ExitApplication(choice) ==
    /\ pc = "menu"
    /\ Strip(choice) = <<"3">>
    /\ pc' = "exit"
    /\ out' = Say("Exiting application.")
    /\ inp' = [prompt |-> ChoicePrompt, line |-> choice]
    /\ net' = NoRequest
    /\ UNCHANGED <<store, my_library, results, fm, written, api>>

\* run: any other choice
InvalidChoice(choice) ==
    /\ pc = "menu"
    /\ Strip(choice) \notin {<<"1">>, <<"2">>, <<"3">>}
    /\ out' = Say("not a valid choice. Please select 1, 2, or 3.")
    /\ inp' = [prompt |-> ChoicePrompt, line |-> choice]
    /\ net' = NoRequest
    /\ UNCHANGED <<pc, store, my_library, results, fm, written, api>>

Init ==
    /\ pc = "start"
    /\ store \in AppStores
    /\ my_library = <<>>
    /\ results = <<>>
    /\ inp = NoInput
    /\ out = NoOutput
    /\ net = NoRequest
    /\ fm = NoCall
    /\ written = NothingWritten
    /\ api = NoApi

Next ==
    \/ \E fault \in {"none", "IOError"} : Construct(fault)
    \/ \E choice \in MenuLines, query \in QueryLines, ret \in SearchOutcomes :
          HandleSearch(choice, query, ret)
    \/ \E line \in SelectionLines : HandleSaveSelection(line)
    \/ \E choice \in MenuLines : HandleViewLibrary(choice)
    \/ \E choice \in MenuLines : ExitApplication(choice)
    \/ \E choice \in MenuLines : InvalidChoice(choice)

Spec == Init /\ [][Next]_vars

---------------------------------------------------------------------------
(* SpecFile: FileManager driven as BookSearchApp drives it *)

InitFile ==
    /\ pc = "driver"
    /\ store \in InitialStores
    /\ my_library = <<>>
    /\ results = <<>>
    /\ inp = NoInput
    /\ out = NoOutput
    /\ net = NoRequest
    /\ fm = NoCall
    /\ written = NothingWritten
    /\ api = NoApi

\* library_data_to_save = [b.to_dict() for b in books]; save_library(...)
\* The driver saves once in a run: pc goes from "driver" to "saved".
FMSave(books, fault) ==
    LET library_data == [i \in 1..Len(books) |-> to_dict(books[i])]
        r == save_library(store, library_data, fault)
    IN  /\ pc = "driver"
        /\ pc' = "saved"
        /\ store' = r.store
        /\ fm' = [op |-> "save", fault |-> fault.at, raised |-> r.raised,
                  before |-> store]
        /\ written' = IF r.raised = "" THEN [valid |-> TRUE, books |-> books]
                      ELSE NothingWritten
        /\ UNCHANGED <<my_library, results, inp, out, net, api>>

\* saved_data = load_library(); [Book(**data) for data in saved_data]
FMLoad(fault) ==
    LET r == load_library(store, fault)
    IN  /\ pc \in {"driver", "saved"}
        /\ fm' = [op |-> "load", fault |-> fault, raised |-> r.raised,
                  data |-> r.data, warning |-> r.warning,
                  rebuilt |-> IF r.raised = "" THEN BooksFromData(r.data)
                              ELSE [raised |-> r.raised, books |-> <<>>],
                  before |-> store]
        /\ UNCHANGED <<pc, store, my_library, results, inp, out, net, written, api>>

NextFile ==
    \/ \E books \in Collections :
         \E fault \in SaveFaults(DumpValue(PyList([i \in 1..Len(books) |-> to_dict(books[i])]))) :
            FMSave(books, fault)
    \/ \E fault \in {"none", "IOError"} : FMLoad(fault)

SpecFile == InitFile /\ [][NextFile]_vars

---------------------------------------------------------------------------
(* SpecApi: APIClient.search_books applied to what the remote side does *)

InitApi ==
    /\ pc = "driver"
    /\ store = Absent
    /\ my_library = <<>>
    /\ results = <<>>
    /\ inp = NoInput
    /\ out = NoOutput
    /\ net = NoRequest
    /\ fm = NoCall
    /\ written = NothingWritten
    /\ api \in {[op |-> "pending", resp |-> r] : r \in Responses}

Search ==
    /\ api.op = "pending"
    /\ api' = [op |-> "done", resp |-> api.resp, ret |-> search_books(api.resp)]
    /\ UNCHANGED <<pc, store, my_library, results, inp, out, net, fm, written>>

NextApi == Search

SpecApi == InitApi /\ [][NextApi]_vars

---------------------------------------------------------------------------
(* Notions the properties are stated with *)

IsPrefix(a, b) == Len(a) <= Len(b) /\ SubSeq(b, 1, Len(a)) = a

\* the JSON text of a collection of Books
Serialized(books) ==
    TextFile(DumpValue(PyList([i \in 1..Len(books) |-> to_dict(books[i])])))

\* what a start of the application would load from a store that can be read
Reloaded(st) ==
    LET r == load_library(st, "none")
    IN  IF r.raised = "" THEN BooksFromData(r.data)
        ELSE [raised |-> r.raised, books |-> <<>>]

\* the store holds a JSON text
IsJson(st) == st.exists /\ st.utf8 /\ JsonLoad(st.text).raised = ""

\* the records the store holds: the elements of its JSON array, if it is one
StoreRecords(st) ==
    IF IsJson(st) /\ JsonLoad(st.text).val.ty = "list"
    THEN JsonLoad(st.text).val.elems
    ELSE <<>>

\* the selection is the number k, written as int() reads it
IsNumber(selection, k) == selection \in {IntStr(k), <<"+">> \o IntStr(k)}

\* the line selects one of the n results
SelectsOneOf(line, n) == \E k \in 1..n : IsNumber(Strip(Lower(line)), k)
Selected(line, n) == CHOOSE k \in 1..n : IsNumber(Strip(Lower(line)), k)

Cancels(line) == Strip(Lower(line)) = <<"n">>

SaveSucceeded == "SUCCESS: added and library saved."
SaveFailed == "FATAL SAVE ERROR: Could not save the library after adding the book."

---------------------------------------------------------------------------
(* FileManager: properties under SpecFile *)

\* C1: save_library overwrites the store atomically: a save that fails
\* (FileLoadError) leaves the store with its previous content, never with a
\* partially written text, and a save that succeeds leaves exactly the text
\* of the whole new collection.
C1_SaveIsAtomic ==
    fm.op = "save" =>
        IF fm.raised = ""
        THEN written.valid /\ store = Serialized(written.books)
        ELSE fm.raised = "FileLoadError" /\ store = fm.before

\* What the code does keep of C1: a text cut short by a failed write is never
\* read back as a collection.
PartialWriteIsRejected ==
    (fm.op = "save" /\ fm.fault = "write") =>
        load_library(store, "none").raised = "FileLoadError"

\* C2: saving a collection of Books and loading it again, rebuilding the
\* Books as the application does when it starts, gives the same Books with the
\* same four field values in the same order.
C2_RoundTrip ==
    (fm.op = "load" /\ fm.fault = "none" /\ written.valid) =>
        /\ fm.raised = ""
        /\ fm.warning = ""
        /\ fm.rebuilt.raised = ""
        /\ fm.rebuilt.books = written.books

\* a collection with a duplicate and with absent publisher and identifier has
\* been saved and loaded again
C2_Witness ==
    /\ fm.op = "load" /\ fm.fault = "none" /\ written.valid
    /\ Len(written.books) = 2
    /\ written.books[1] = written.books[2]
    /\ written.books[1].publisher = PyNone
    /\ fm.rebuilt.books = written.books

\* C5: load_library leaves the store as it is and has exactly these outcomes:
\* no store: the empty collection, no error; a JSON text that is no array: the
\* empty collection and a warning; a JSON array: its elements in order; a
\* store that cannot be parsed: FileLoadError.
C5_LoadClassifies ==
    (fm.op = "load" /\ fm.fault = "none") =>
        /\ store = fm.before
        /\ IF ~fm.before.exists
           THEN fm.raised = "" /\ fm.data = <<>> /\ fm.warning # "not a list"
           ELSE IF IsJson(fm.before) /\ JsonLoad(fm.before.text).val.ty # "list"
           THEN fm.raised = "" /\ fm.data = <<>> /\ fm.warning = "not a list"
           ELSE IF IsJson(fm.before)
           THEN fm.raised = "" /\ fm.data = JsonLoad(fm.before.text).val.elems
                /\ fm.warning = ""
           ELSE fm.raised = "FileLoadError"

\* What the code does keep of C5: the classification of every store that is
\* UTF-8 text.
TextStoreIsClassified ==
    (fm.op = "load" /\ fm.fault = "none" /\ fm.before.utf8) => C5_LoadClassifies

---------------------------------------------------------------------------
(* APIClient: properties under SpecApi *)

\* the response is a 200 with one item whose identifier list is ids
HasIdentifiers(resp, ids) == resp = Response(200, ItemsBody(<<ItemWithIds(ids)>>))

Isbn13Values(ids) ==
    { ids[i].items["identifier"] :
        i \in { j \in 1..Len(ids) :
                  /\ Get(ids[j], "type", PyNone) = W("ISBN_13")
                  /\ "identifier" \in DOMAIN ids[j].items } }

\* the first identifier the list offers from entry k on, None if it offers none
RECURSIVE FirstAvailable(_, _)
FirstAvailable(ids, k) ==
    IF k > Len(ids) THEN PyNone
    ELSE IF "identifier" \in DOMAIN ids[k].items THEN ids[k].items["identifier"]
    ELSE FirstAvailable(ids, k + 1)

\* C3: for every identifier list, the search succeeds and the record's
\* identifier is the value of an ISBN-13 entry when there is one, wherever
\* it stands, else the first identifier the list offers, and is absent only if
\* the list offers none.
C3_IdentifierChoice ==
    \A ids \in IdLists :
        (api.op = "done" /\ HasIdentifiers(api.resp, ids)) =>
            /\ api.ret.raised = ""
            /\ Len(api.ret.records) = 1
            /\ IF Isbn13Values(ids) # {}
               THEN api.ret.records[1].items["isbn"] \in Isbn13Values(ids)
               ELSE api.ret.records[1].items["isbn"] = FirstAvailable(ids, 1)

\* What the code does keep of C3: an ISBN-13 entry that has a value wins over
\* entries before it.
Isbn13IsPreferred ==
    \A ids \in IdLists :
        (api.op = "done" /\ HasIdentifiers(api.resp, ids) /\ api.ret.raised = "") =>
            (Isbn13Values(ids) # {} => api.ret.records[1].items["isbn"] \in Isbn13Values(ids))

\* the payload is no object, or its items are no list, or an item of it
\* cannot be normalized
MalformedPayload(body) ==
    LET data == JsonLoad(body)
    IN  \/ data.raised # ""
        \/ data.val.ty # "dict"
        \/ /\ Truthy(Get(data.val, "items", PyNone))
           /\ \/ data.val.items["items"].ty # "list"
              \/ \E i \in 1..Len(data.val.items["items"].elems) :
                    NormalizeItem(data.val.items["items"].elems[i]).raised # ""

\* the items of a payload that is well formed
ItemsOf(body) ==
    LET data == JsonLoad(body)
    IN  IF Truthy(Get(data.val, "items", PyNone)) THEN data.val.items["items"].elems
        ELSE <<>>

\* search_books either returns the records of all items or raises APIError
\* with no records
TwoOutcomes ==
    api.op = "done" =>
        \/ /\ api.ret.raised = "APIError" /\ api.ret.cause # "" /\ api.ret.records = <<>>
        \/ /\ api.ret.raised = ""
           /\ api.resp.transport = "ok"
           /\ ~MalformedPayload(api.resp.body)
           /\ Len(api.ret.records) = Len(ItemsOf(api.resp.body))
           /\ \A i \in 1..Len(api.ret.records) :
                 api.ret.records[i] = NormalizeItem(ItemsOf(api.resp.body)[i]).data

\* C4: search_books returns the records of all items of the response or
\* raises APIError with no records; a network failure, a timeout, a status
\* that is not 2xx and a malformed payload all raise APIError.
C4_FailuresAreApiErrors ==
    /\ TwoOutcomes
    /\ api.op = "done" =>
          ((\/ api.resp.transport # "ok"
            \/ ~(200 <= api.resp.status /\ api.resp.status <= 299)
            \/ MalformedPayload(api.resp.body)) => api.ret.raised = "APIError")

\* What the code does keep of C4: the two outcomes, and APIError for every
\* failure but a status outside 2xx that is no 4xx or 5xx.
FailuresButOddStatusAreApiErrors ==
    /\ TwoOutcomes
    /\ api.op = "done" =>
          ((\/ api.resp.transport # "ok"
            \/ (400 <= api.resp.status /\ api.resp.status <= 599)
            \/ MalformedPayload(api.resp.body)) => api.ret.raised = "APIError")

---------------------------------------------------------------------------
(* BookSearchApp: properties under Spec *)

\* C6: no failure of the remote call or of the storage crashes the process:
\* a failed search and a failed save are reported and the application is back
\* at the main menu, and whatever the store holds when the application starts,
\* the construction of BookSearchApp completes. Stated for the stores that
\* are text: no store, a text that cannot be parsed, a JSON text that is no
\* array, and an array of whatever elements.
C6_NeverCrashes ==
    /\ store.utf8 => pc # "crashed"
    /\ out.msg \in {"API SEARCH FAILED", SaveFailed} => pc = "menu"

\* What the code does keep of C6: after the start, failures are reported at
\* the main menu.
FailuresAreReported ==
    out.msg \in {"API SEARCH FAILED", SaveFailed, "CRITICAL FILE ERROR: Cannot load library"}
        => pc = "menu"

\* C7: in the selection loop a line that is neither 'n' nor a number in
\* 1..len(results) changes neither the library nor the store and the loop
\* prompts again; the loop ends only on 'n' (nothing changed), on a valid
\* number, or on a save error (which only a valid number leads to).
C7_InvalidSelectionReprompts ==
    [][pc = "select" =>
          IF ~Cancels(inp'.line) /\ ~SelectsOneOf(inp'.line, Len(results))
          THEN /\ pc' = "select"
               /\ my_library' = my_library
               /\ store' = store
               /\ results' = results
               /\ out'.msg # SaveFailed
          ELSE /\ pc' = "menu"
               /\ Cancels(inp'.line) => (my_library' = my_library /\ store' = store)]_vars

\* the loop has prompted again after a number one past the results, with a
\* book already in the library
C7_Witness ==
    /\ pc = "select"
    /\ inp.prompt = SelectionPrompt
    /\ Strip(inp.line) = IntStr(Len(results) + 1)
    /\ out.msg = "Invalid selection number. Must be one of the options listed."
    /\ my_library # <<>>

\* C8: the selection loop is entered only by a search that succeeded with at
\* least one result; a search with an empty query, with no items or with an
\* APIError goes back to the main menu with a message and leaves the library
\* and the store as they were; an empty query makes no remote request.
C8_PromptOnlyAfterResults ==
    [][/\ (pc # "select" /\ pc' = "select") => (pc = "menu" /\ inp'.prompt = QueryPrompt)
       /\ (pc = "menu" /\ inp'.prompt = QueryPrompt) =>
             /\ Strip(inp'.line) = <<>> => ~net'.sent
             /\ Strip(inp'.line) # <<>> => net'.sent
             /\ (Strip(inp'.line) = <<>> \/ net'.raised = "APIError" \/ net'.n = 0) =>
                   /\ pc' = "menu"
                   /\ my_library' = my_library
                   /\ store' = store
                   /\ out'.msg \in {"Search query cannot be empty. Returning to menu.",
                                    "API SEARCH FAILED",
                                    "Search finished. No books found."}
             /\ pc' = "select" =>
                   /\ Strip(inp'.line) # <<>>
                   /\ net'.raised = ""
                   /\ net'.n >= 1
                   /\ Len(results') = net'.n
                   /\ my_library' = my_library
                   /\ store' = store]_vars

\* a search has failed with a book in the library and the application is at
\* the main menu
C8_Witness ==
    /\ pc = "menu"
    /\ inp.prompt = QueryPrompt
    /\ net.sent /\ net.raised = "APIError"
    /\ out.msg = "API SEARCH FAILED"
    /\ my_library # <<>>

\* C9: a valid number k appends results[k] as the last element of the
\* library, whatever the library holds, and ends the loop; when the save
\* succeeds the store holds the library; and 'view library' lists the last
\* book as "[n] title by author", n the length of the library.
C9_SelectionAppendsAndSaves ==
    [][/\ (pc = "select" /\ SelectsOneOf(inp'.line, Len(results))) =>
             /\ my_library' = Append(my_library, results[Selected(inp'.line, Len(results))])
             /\ pc' = "menu"
             /\ out'.msg \in {SaveSucceeded, SaveFailed}
             /\ out'.msg = SaveSucceeded =>
                   /\ store' = Serialized(my_library')
                   /\ Reloaded(store') = [raised |-> "", books |-> my_library']
       /\ (pc = "menu" /\ inp'.prompt = ChoicePrompt /\ Strip(inp'.line) = <<"2">>
             /\ my_library # <<>>) =>
             /\ my_library' = my_library
             /\ store' = store
             /\ Len(out'.lines) = Len(my_library)
             /\ out'.lines[Len(my_library)] =
                   <<"[">> \o IntStr(Len(my_library)) \o <<"] ">>
                       \o Text(my_library[Len(my_library)].title) \o <<" by ">>
                       \o Text(my_library[Len(my_library)].author)]_vars

\* the same book has been saved twice, the second save succeeded, and the
\* library has been viewed: its last line is "[2] Dune by Frank Herbert"
C9_Witness ==
    /\ pc = "menu"
    /\ out.msg = "--- Your Saved Library ---"
    /\ Len(my_library) = 2
    /\ my_library[1] = my_library[2]
    /\ store = Serialized(my_library)
    /\ out.lines[2] = <<"[", "2", "] ", "Dune", " by ", "Frank Herbert">>

\* C10: nothing is deleted or updated: the records the store holds before a
\* step are a prefix of the records it holds after the step, and, once the
\* application has started, so it is for the library.
C10_NothingIsLost ==
    [][/\ IsPrefix(StoreRecords(store), StoreRecords(store'))
       /\ pc # "start" => IsPrefix(my_library, my_library')]_vars

\* What the code does keep of C10: the library only grows, and a save that
\* succeeds keeps every record the store held if the library was loaded from
\* the store.
LibraryOnlyGrows ==
    [][pc # "start" => IsPrefix(my_library, my_library')]_vars

===========================================================================
